---------------------------- MODULE Spec2Model ----------------------------
(***************************************************************************)
(* Model of the cc-parser repository: CustomPDFParser (src/parser.py) and  *)
(* CreditCardStatementParser (src/credit_card_parser.py).                   *)
(*                                                                         *)
(* A text is a sequence of one-character strings.  Four specifications    *)
(* share the variables:                                                    *)
(*   SpecClean  applies CustomPDFParser._clean_text to every bounded text, *)
(*   Spec       runs CustomPDFParser.parse_pdf step by step,               *)
(*   SpecStrip  runs _remove_headers_footers and the assembly on every     *)
(*              bounded list of cleaned pages,                             *)
(*   SpecStmt   runs CreditCardStatementParser.parse_statement.            *)
(***************************************************************************)
EXTENDS Integers, Sequences, FiniteSets, TLC

VARIABLES
    cl_pc, cl_in, cl_out, cl_out2,           \* _clean_text applied once and twice
    pc, cfg, i, pages_data, result,          \* parse_pdf
    extracted,        \* the page_data of every page read so far, kept or not
    input_pages,      \* the list handed to _remove_headers_footers, read
                      \* after the call
    st_pc, st_doc, st_parsed, st_result      \* parse_statement

cleanVars == <<cl_in, cl_out, cl_out2>>
parseVars == <<cfg, i, pages_data, result, extracted, input_pages>>
stmtVars == <<st_pc, st_doc, st_parsed, st_result>>
vars == <<cl_pc, cl_in, cl_out, cl_out2, pc, cfg, i, pages_data, result,
          extracted, input_pages, st_pc, st_doc, st_parsed, st_result>>

(***************************************************************************)
(* Bounds                                                                  *)
(***************************************************************************)
MaxCleanLen == 6      \* longest text handed to _clean_text in SpecClean
MaxRawLen == 4        \* longest raw page text in Spec
MaxPages == 3         \* most pages of a document in Spec
MaxMinLen == 2        \* largest min_text_length in Spec
\* pages of a list handed to _remove_headers_footers on its own
MaxStripPages == 4

MaxStmtPages == 3     \* most pages of a document in SpecStmt

NL == "\n"
SP == " "
CleanAlphabet == {"a", SP, NL}
PageAlphabet == {"a", SP, NL}

SeqsUpTo(S, n) == UNION {[1..k -> S] : k \in 0..n}

(***************************************************************************)
(* Python string primitives used by the source                             *)
(***************************************************************************)
\* str.strip() with no argument strips these characters
Whitespace == {SP, NL, "\t", "\r"}

RECURSIVE LStrip(_)
LStrip(s) ==
    IF s # <<>> /\ Head(s) \in Whitespace THEN LStrip(Tail(s)) ELSE s

RECURSIVE RStrip(_)
RStrip(s) ==
    IF s # <<>> /\ s[Len(s)] \in Whitespace
    THEN RStrip(SubSeq(s, 1, Len(s) - 1))
    ELSE s

Strip(s) == RStrip(LStrip(s))

\* text.split('\n'): the empty text gives one empty line; the lines from
\* position start on
RECURSIVE SplitNL(_, _)
SplitNL(s, start) ==
    LET newlines == {k \in start..Len(s) : s[k] = NL} IN
    IF newlines = {} THEN <<SubSeq(s, start, Len(s))>>
    ELSE LET next == CHOOSE k \in newlines : \A j \in newlines : k <= j IN
         <<SubSeq(s, start, next - 1)>> \o SplitNL(s, next + 1)

Split(s) == SplitNL(s, 1)

\* sep.join(parts)
RECURSIVE Join(_, _)
Join(sep, parts) ==
    IF parts = <<>> THEN <<>>
    ELSE IF Len(parts) = 1 THEN parts[1]
    ELSE parts[1] \o sep \o Join(sep, Tail(parts))

\* text.split(): a token starts at every character that is not whitespace
\* and comes first or after whitespace
TokenStarts(s) ==
    {k \in 1..Len(s) :
        s[k] \notin Whitespace /\ (k = 1 \/ s[k - 1] \in Whitespace)}

\* len(text.split()): number of whitespace-delimited tokens
WordCount(s) == Cardinality(TokenStarts(s))

HasTripleNL(s) ==
    \E k \in 1..(Len(s) - 2) : s[k] = NL /\ s[k + 1] = NL /\ s[k + 2] = NL

\* text.replace('\n\n\n', '\n\n'): one left-to-right pass, non-overlapping
RECURSIVE ReplaceTripleNL(_)
ReplaceTripleNL(s) ==
    IF Len(s) < 3 THEN s
    ELSE IF s[1] = NL /\ s[2] = NL /\ s[3] = NL
         THEN <<NL, NL>> \o ReplaceTripleNL(SubSeq(s, 4, Len(s)))
         ELSE <<s[1]>> \o ReplaceTripleNL(Tail(s))

(***************************************************************************)
(* CustomPDFParser._clean_text                                             *)
(***************************************************************************)
\* the loop over lines: strip each, keep non-empty ones, keep one empty
\* line after a non-empty one
RECURSIVE CleanLoop(_, _)
CleanLoop(lines, cleaned_lines) ==
    IF lines = <<>> THEN cleaned_lines
    ELSE LET line == Strip(Head(lines)) IN
         CleanLoop(Tail(lines),
             IF line # <<>> THEN Append(cleaned_lines, line)
             ELSE IF cleaned_lines # <<>>
                     /\ cleaned_lines[Len(cleaned_lines)] # <<>>
                  THEN Append(cleaned_lines, <<>>)
                  ELSE cleaned_lines)

\* while '\n\n\n' in cleaned_text: replace
RECURSIVE CollapseLoop(_)
CollapseLoop(s) ==
    IF HasTripleNL(s) THEN CollapseLoop(ReplaceTripleNL(s)) ELSE s

\* mutant of CleanText: the final strip() is dropped
CleanTextNoStrip(text) ==
    IF text = <<>> THEN <<>>
    ELSE CollapseLoop(Join(<<NL>>, CleanLoop(Split(text), <<>>)))

\* mutant of CleanText: every blank line is kept and the triple-newline
\* replacement runs once instead of until none is left
RECURSIVE KeepAllLoop(_, _)
KeepAllLoop(lines, cleaned_lines) ==
    IF lines = <<>> THEN cleaned_lines
    ELSE KeepAllLoop(Tail(lines), Append(cleaned_lines, Strip(Head(lines))))

CleanTextOnePass(text) ==
    IF text = <<>> THEN <<>>
    ELSE Strip(ReplaceTripleNL(Join(<<NL>>, KeepAllLoop(Split(text), <<>>))))

CleanText(text) ==
    IF text = <<>> THEN <<>>
    ELSE Strip(CollapseLoop(Join(<<NL>>, CleanLoop(Split(text), <<>>))))

(***************************************************************************)
(* SpecClean: _clean_text on every text of at most MaxCleanLen characters, *)
(* then on its own output                                                  *)
(***************************************************************************)
ParseIdle ==
    /\ pc = "idle"
    /\ cfg = [min_text_length |-> 0, remove_headers_footers |-> FALSE]
    /\ i = 0
    /\ pages_data = <<>>
    /\ result = <<>>
    /\ extracted = <<>>
    /\ input_pages = <<>>

CleanIdle ==
    /\ cl_pc = "idle"
    /\ cl_in = <<>>
    /\ cl_out = <<>>
    /\ cl_out2 = <<>>

StmtIdle ==
    /\ st_pc = "idle"
    /\ st_doc = [readable |-> FALSE, pages |-> <<>>]
    /\ st_parsed = <<>>
    /\ st_result = <<>>

CleanInit ==
    /\ cl_pc = "input"
    /\ cl_in \in SeqsUpTo(CleanAlphabet, MaxCleanLen)
    /\ cl_out = <<>>
    /\ cl_out2 = <<>>
    /\ ParseIdle
    /\ StmtIdle

CleanOnce ==
    /\ cl_pc = "input"
    /\ cl_out' = CleanText(cl_in)
    /\ cl_pc' = "once"
    /\ UNCHANGED <<cl_in, cl_out2, pc, parseVars, stmtVars>>

CleanAgain ==
    /\ cl_pc = "once"
    /\ cl_out2' = CleanText(cl_out)
    /\ cl_pc' = "twice"
    /\ UNCHANGED <<cl_in, cl_out, pc, parseVars, stmtVars>>

CleanNext == CleanOnce \/ CleanAgain

SpecClean == CleanInit /\ [][CleanNext]_vars

(***************************************************************************)
(* CustomPDFParser.extract_text_from_page                                  *)
(***************************************************************************)
\* mutant of ExtractTextFromPage: the except branch keeps the page's text
ExtractTextFromPageKeepsText(raw, ok, page_num) ==
    LET text == CleanText(raw) IN
    [text |-> text,
     page_number |-> page_num + 1,
     error |-> ~ok,
     word_count |-> IF text # <<>> THEN WordCount(text) ELSE 0]

\* ok = FALSE: page.extract_text raises and the except branch answers
ExtractTextFromPage(raw, ok, page_num) ==
    IF ok
    THEN LET text == CleanText(raw) IN
         [text |-> text,
          page_number |-> page_num + 1,
          error |-> FALSE,
          word_count |-> IF text # <<>> THEN WordCount(text) ELSE 0]
    ELSE [text |-> <<>>,
          page_number |-> page_num + 1,
          error |-> TRUE,
          word_count |-> 0]

(***************************************************************************)
(* CustomPDFParser._remove_headers_footers                                 *)
(***************************************************************************)
FirstLine(text) == IF text # <<>> THEN Split(text)[1] ELSE <<>>

LastLine(text) == IF text # <<>> THEN Split(text)[Len(Split(text))] ELSE <<>>

\* first_lines.count(line)
CountOf(line, lines) == Cardinality({k \in 1..Len(lines) : lines[k] = line})

\* mutant of Frequent: one page is enough
FrequentFromOne(edge_lines) ==
    {edge_lines[k] : k \in
        {j \in 1..Len(edge_lines) : Strip(edge_lines[j]) # <<>>}}

\* mutant of Frequent: half of the pages is enough
FrequentFromHalf(edge_lines) ==
    {edge_lines[k] : k \in
        {j \in 1..Len(edge_lines) :
            /\ 2 * CountOf(edge_lines[j], edge_lines) >= Len(edge_lines)
            /\ Strip(edge_lines[j]) # <<>>}}

\* lines of edge_lines on more than half of the pages, blank ones excluded
Frequent(edge_lines) ==
    {edge_lines[k] : k \in
        {j \in 1..Len(edge_lines) :
            /\ 2 * CountOf(edge_lines[j], edge_lines) > Len(edge_lines)
            /\ Strip(edge_lines[j]) # <<>>}}

FirstLines(pages) == [k \in 1..Len(pages) |-> FirstLine(pages[k].text)]

LastLines(pages) == [k \in 1..Len(pages) |-> LastLine(pages[k].text)]

PotentialHeaders(pages) == Frequent(FirstLines(pages))

PotentialFooters(pages) == Frequent(LastLines(pages))

\* the orders in which a list built from set(...) can hold the lines of S
Orders(S) ==
    {order \in [1..Cardinality(S) -> S] :
        \A line \in S : \E k \in 1..Cardinality(S) : order[k] = line}

\* for candidate in candidates: if line.strip() == candidate.strip(): break
RECURSIVE FoundInOrder(_, _)
FoundInOrder(line, candidates) ==
    IF candidates = <<>> THEN FALSE
    ELSE IF Strip(line) = Strip(Head(candidates)) THEN TRUE
    ELSE FoundInOrder(line, Tail(candidates))

\* the body of the loop over pages with the candidate lists in the order
\* the build gave them
StripPageTextOrdered(text, header_list, footer_list) ==
    LET lines0 == Split(text)
        lines1 == IF lines0 # <<>> /\ header_list # <<>>
                     /\ FoundInOrder(lines0[1], header_list)
                  THEN Tail(lines0)
                  ELSE lines0
        lines2 == IF lines1 # <<>> /\ footer_list # <<>>
                     /\ FoundInOrder(lines1[Len(lines1)], footer_list)
                  THEN SubSeq(lines1, 1, Len(lines1) - 1)
                  ELSE lines1
    IN Strip(Join(<<NL>>, lines2))

RemoveHeadersFootersOrdered(config, pages, header_list, footer_list) ==
    IF Len(pages) < 3 \/ ~config.remove_headers_footers
    THEN pages
    ELSE [k \in 1..Len(pages) |->
             [pages[k] EXCEPT !.text =
                 StripPageTextOrdered(@, header_list, footer_list)]]

\* mutant of StripPageText: matching header lines are removed repeatedly
RECURSIVE DropHeaders(_, _)
DropHeaders(lines, potential_headers) ==
    IF lines # <<>> /\ \E header \in potential_headers :
                           Strip(lines[1]) = Strip(header)
    THEN DropHeaders(Tail(lines), potential_headers)
    ELSE lines

StripPageTextIterated(text, potential_headers, potential_footers) ==
    LET lines1 == DropHeaders(Split(text), potential_headers)
        lines2 == IF lines1 # <<>> /\ potential_footers # {}
                     /\ \E footer \in potential_footers :
                            Strip(lines1[Len(lines1)]) = Strip(footer)
                  THEN SubSeq(lines1, 1, Len(lines1) - 1)
                  ELSE lines1
    IN Strip(Join(<<NL>>, lines2))

\* the body of the loop over pages: drop the first line if it matches a
\* frequent header, then the last line if it matches a frequent footer,
\* rejoin and strip
StripPageText(text, potential_headers, potential_footers) ==
    LET lines0 == Split(text)
        lines1 == IF lines0 # <<>> /\ potential_headers # {}
                     /\ \E header \in potential_headers :
                            Strip(lines0[1]) = Strip(header)
                  THEN Tail(lines0)
                  ELSE lines0
        lines2 == IF lines1 # <<>> /\ potential_footers # {}
                     /\ \E footer \in potential_footers :
                            Strip(lines1[Len(lines1)]) = Strip(footer)
                  THEN SubSeq(lines1, 1, Len(lines1) - 1)
                  ELSE lines1
    IN Strip(Join(<<NL>>, lines2))

\* mutant of RemoveHeadersFooters: stripping starts at two pages
RemoveHeadersFootersFromTwo(config, pages) ==
    IF Len(pages) < 2 \/ ~config.remove_headers_footers
    THEN pages
    ELSE LET first_lines == [k \in 1..Len(pages) |-> FirstLine(pages[k].text)]
             last_lines == [k \in 1..Len(pages) |-> LastLine(pages[k].text)]
             potential_headers == Frequent(first_lines)
             potential_footers == Frequent(last_lines)
         IN [k \in 1..Len(pages) |->
                [pages[k] EXCEPT !.text =
                    StripPageText(@, potential_headers, potential_footers)]]

RemoveHeadersFooters(config, pages) ==
    IF Len(pages) < 3 \/ ~config.remove_headers_footers
    THEN pages
    ELSE LET first_lines == [k \in 1..Len(pages) |-> FirstLine(pages[k].text)]
             last_lines == [k \in 1..Len(pages) |-> LastLine(pages[k].text)]
             potential_headers == Frequent(first_lines)
             potential_footers == Frequent(last_lines)
         IN [k \in 1..Len(pages) |->
                [pages[k] EXCEPT !.text =
                    StripPageText(@, potential_headers, potential_footers)]]

\* mutant of InputAfterCall: the function works on copies of the pages
InputAfterCallCopied(config, pages) == pages

\* what the caller's list reads after the call: the function assigns to
\* page_data["text"] of the dictionaries it was given and returns the very
\* list it was given, so argument and return value are one object
InputAfterCall(config, pages) == RemoveHeadersFooters(config, pages)

(***************************************************************************)
(* CustomPDFParser.parse_pdf                                               *)
(***************************************************************************)
\* the pages whose text is not empty, in order
RECURSIVE NonEmptyTexts(_)
NonEmptyTexts(pages) ==
    IF pages = <<>> THEN <<>>
    ELSE (IF Head(pages).text # <<>> THEN <<Head(pages).text>> ELSE <<>>)
         \o NonEmptyTexts(Tail(pages))

RECURSIVE SumWordCounts(_)
SumWordCounts(pages) ==
    IF pages = <<>> THEN 0
    ELSE Head(pages).word_count + SumWordCounts(Tail(pages))

\* mutant of KeepPage: the threshold is off by one
KeepPageOffByOne(config, page_data) ==
    Len(page_data.text) >= config.min_text_length - 1

\* mutant of KeepPage: a page of exactly min_text_length characters is
\* dropped
KeepPageStrict(config, page_data) ==
    Len(page_data.text) > config.min_text_length

\* the filter of the page loop
KeepPage(config, page_data) ==
    Len(page_data.text) >= config.min_text_length

\* mutant of ParsedData: empty page texts are joined too
ParsedDataJoinAll(pages, total_pages) ==
    [full_text |-> Join(<<NL, NL>>, [k \in 1..Len(pages) |-> pages[k].text]),
     pages |-> pages,
     total_pages |-> total_pages,
     processed_pages |-> Len(pages),
     total_words |-> SumWordCounts(pages)]

\* the dictionary parse_pdf returns for a document of total_pages pages
ParsedData(pages, total_pages) ==
    [full_text |-> Join(<<NL, NL>>, NonEmptyTexts(pages)),
     pages |-> pages,
     total_pages |-> total_pages,
     processed_pages |-> Len(pages),
     total_words |-> SumWordCounts(pages)]

Configs ==
    [min_text_length : 0..MaxMinLen, remove_headers_footers : BOOLEAN]

\* three-line raw pages beyond MaxRawLen: "a\na\na" and "a\n\naa"
SamplePages == {<<"a", NL, "a", NL, "a">>, <<"a", NL, NL, "a", "a">>}

RawTexts == SeqsUpTo(PageAlphabet, MaxRawLen) \cup SamplePages

Init ==
    /\ pc = "open"
    /\ cfg \in Configs
    /\ i = 0
    /\ pages_data = <<>>
    /\ result = <<>>
    /\ extracted = <<>>
    /\ input_pages = <<>>
    /\ CleanIdle
    /\ StmtIdle

\* open() and PdfReader succeed
OpenOk ==
    /\ pc = "open"
    /\ pc' = "loop"
    /\ i' = 0
    /\ pages_data' = <<>>
    /\ UNCHANGED <<cfg, result, extracted, input_pages, cl_pc, cleanVars,
                   stmtVars>>

\* open() or PdfReader raises: the except branch logs and re-raises
OpenFail ==
    /\ pc = "open"
    /\ pc' = "raised"
    /\ UNCHANGED <<parseVars, cl_pc, cleanVars, stmtVars>>

\* one iteration of the loop over pdf_reader.pages
ExtractPage ==
    /\ pc = "loop"
    /\ i < MaxPages
    /\ \E raw \in RawTexts, ok \in BOOLEAN :
          LET page_data == ExtractTextFromPage(raw, ok, i) IN
          /\ pages_data' = IF KeepPage(cfg, page_data)
                           THEN Append(pages_data, page_data)
                           ELSE pages_data
          /\ extracted' = Append(extracted, page_data)
    /\ i' = i + 1
    /\ UNCHANGED <<pc, cfg, result, input_pages, cl_pc, cleanVars, stmtVars>>

\* the document has no further page: the call of _remove_headers_footers
StripHeadersFooters ==
    /\ pc = "loop"
    /\ pages_data' = RemoveHeadersFooters(cfg, pages_data)
    /\ input_pages' = InputAfterCall(cfg, pages_data)
    /\ pc' = "stripped"
    /\ UNCHANGED <<cfg, i, result, extracted, cl_pc, cleanVars, stmtVars>>

\* the join and the returned dictionary
Assemble ==
    /\ pc = "stripped"
    /\ result' = ParsedData(pages_data, i)
    /\ pc' = "done"
    /\ UNCHANGED <<cfg, i, pages_data, extracted, input_pages, cl_pc,
                   cleanVars, stmtVars>>

Next == OpenOk \/ OpenFail \/ ExtractPage \/ StripHeadersFooters \/ Assemble

Spec == Init /\ [][Next]_vars

(***************************************************************************)
(* SpecStrip: _remove_headers_footers on every list of at most             *)
(* MaxStripPages cleaned pages, as parse_pdf holds it when the page loop   *)
(* ends, and the assembly of the result                                    *)
(***************************************************************************)
\* cleaned page texts: "", "a", "b", "a\nb", "b\na", "a\n\nb"
StripTexts ==
    {<<>>, <<"a">>, <<"b">>, <<"a", NL, "b">>, <<"b", NL, "a">>,
     <<"a", NL, NL, "b">>}

StripInit ==
    /\ pc = "loop"
    /\ cfg \in [min_text_length : {0}, remove_headers_footers : BOOLEAN]
    /\ \E n \in 0..MaxStripPages :
          \E texts \in [1..n -> StripTexts] :
              /\ i = n
              /\ pages_data =
                     [k \in 1..n |-> ExtractTextFromPage(texts[k], TRUE, k - 1)]
    /\ extracted = pages_data
    /\ result = <<>>
    /\ input_pages = <<>>
    /\ CleanIdle
    /\ StmtIdle

\* the call of _remove_headers_footers, the candidate lists in any order
\* set() can give them
StripAnyOrder ==
    /\ pc = "loop"
    /\ \E header_list \in Orders(PotentialHeaders(pages_data)),
          footer_list \in Orders(PotentialFooters(pages_data)) :
          pages_data' = RemoveHeadersFootersOrdered(cfg, pages_data,
                                                    header_list, footer_list)
    /\ input_pages' = pages_data'
    /\ pc' = "stripped"
    /\ UNCHANGED <<cfg, i, result, extracted, cl_pc, cleanVars, stmtVars>>

StripNext == StripAnyOrder \/ Assemble

SpecStrip == StripInit /\ [][StripNext]_vars

(***************************************************************************)
(* CreditCardStatementParser._detect_issuer                                *)
(***************************************************************************)
Uppercase ==
    {"A", "B", "C", "D", "E", "F", "G", "H", "I", "J", "K", "L", "M", "N",
    "O", "P", "Q", "R", "S", "T", "U", "V", "W", "X", "Y", "Z"}

Lowercase ==
    {"a", "b", "c", "d", "e", "f", "g", "h", "i", "j", "k", "l", "m", "n",
    "o", "p", "q", "r", "s", "t", "u", "v", "w", "x", "y", "z"}

Digits == {"0", "1", "2", "3", "4", "5", "6", "7", "8", "9"}

LowerMap ==
    "A" :> "a" @@ "B" :> "b" @@ "C" :> "c" @@ "D" :> "d" @@ "E" :> "e" @@
    "F" :> "f" @@ "G" :> "g" @@ "H" :> "h" @@ "I" :> "i" @@ "J" :> "j" @@
    "K" :> "k" @@ "L" :> "l" @@ "M" :> "m" @@ "N" :> "n" @@ "O" :> "o" @@
    "P" :> "p" @@ "Q" :> "q" @@ "R" :> "r" @@ "S" :> "s" @@ "T" :> "t" @@
    "U" :> "u" @@ "V" :> "v" @@ "W" :> "w" @@ "X" :> "x" @@ "Y" :> "y" @@
    "Z" :> "z"

\* text.lower()
Lower(s) ==
    [k \in 1..Len(s) |-> IF s[k] \in Uppercase THEN LowerMap[s[k]] ELSE s[k]]

\* keyword in text
Contains(sub, s) ==
    \E k \in 0..(Len(s) - Len(sub)) : SubSeq(s, k + 1, k + Len(sub)) = sub

KwAmericanExpress ==
    <<"a", "m", "e", "r", "i", "c", "a", "n", SP, "e", "x", "p", "r", "e",
      "s", "s">>

KwAmex ==
    <<"a", "m", "e", "x">>

KwChase ==
    <<"c", "h", "a", "s", "e">>

KwJpmorganChase ==
    <<"j", "p", "m", "o", "r", "g", "a", "n", SP, "c", "h", "a", "s", "e">>

KwCitibank ==
    <<"c", "i", "t", "i", "b", "a", "n", "k">>

KwCitiCard ==
    <<"c", "i", "t", "i", SP, "c", "a", "r", "d">>

KwCapitalOne ==
    <<"c", "a", "p", "i", "t", "a", "l", SP, "o", "n", "e">>

KwBankOfAmerica ==
    <<"b", "a", "n", "k", SP, "o", "f", SP, "a", "m", "e", "r", "i", "c",
      "a">>

KwBankamericard ==
    <<"b", "a", "n", "k", "a", "m", "e", "r", "i", "c", "a", "r", "d">>

\* the issuers dictionary, in insertion order
Issuers ==
    <<[label |-> "American Express",
       keywords |-> <<KwAmericanExpress, KwAmex>>],
      [label |-> "Chase",
       keywords |-> <<KwChase, KwJpmorganChase>>],
      [label |-> "Citibank",
       keywords |-> <<KwCitibank, KwCitiCard>>],
      [label |-> "Capital One",
       keywords |-> <<KwCapitalOne>>],
      [label |-> "Bank of America",
       keywords |-> <<KwBankOfAmerica, KwBankamericard>>]>>

\* Issuers with Citibank declared before Chase
IssuersCitibankFirst ==
    <<[label |-> "American Express",
       keywords |-> <<KwAmericanExpress, KwAmex>>],
      [label |-> "Citibank",
       keywords |-> <<KwCitibank, KwCitiCard>>],
      [label |-> "Chase",
       keywords |-> <<KwChase, KwJpmorganChase>>],
      [label |-> "Capital One",
       keywords |-> <<KwCapitalOne>>],
      [label |-> "Bank of America",
       keywords |-> <<KwBankOfAmerica, KwBankamericard>>]>>

\* the loop over the issuers and their keywords: the first issuer with a
\* keyword in the text
RECURSIVE FirstIssuer(_, _)
FirstIssuer(table, text_lower) ==
    IF table = <<>> THEN "Unknown"
    ELSE IF \E k \in 1..Len(Head(table).keywords) :
                Contains(Head(table).keywords[k], text_lower)
         THEN Head(table).label
         ELSE FirstIssuer(Tail(table), text_lower)

\* mutant of DetectIssuer: Citibank is looked up before Chase
DetectIssuerCitibankFirst(text) == FirstIssuer(IssuersCitibankFirst, Lower(text))

\* mutant of DetectIssuer: the text is not lower-cased
DetectIssuerCaseSensitive(text) == FirstIssuer(Issuers, text)

DetectIssuer(text) == FirstIssuer(Issuers, Lower(text))

(***************************************************************************)
(* CreditCardStatementParser._extract_transactions                         *)
(*                                                                         *)
(* The pattern is                                                          *)
(*   (\d{1,2}[/-]\d{1,2}[/-]\d{2,4})\s+([A-Za-z0-9\s\*\-]+?)\s+            *)
(*   (\$?[\d,]+\.\d{2})                                                    *)
(* and is matched the way re does: greedy and lazy quantifiers, the first  *)
(* alternative that lets the whole pattern match wins.                     *)
(***************************************************************************)
DateSeps == {"/", "-"}

\* \s
RegexSpace == {SP, NL, "\t", "\r", "\f"}

\* [A-Za-z0-9\s\*\-]
DescChars == Uppercase \cup Lowercase \cup Digits \cup RegexSpace \cup {"*", "-"}

\* [\d,]
AmountChars == Digits \cup {","}

\* number of characters of class from position p on, at most max
RECURSIVE RunLen(_, _, _, _)
RunLen(s, p, class, max) ==
    IF max = 0 \/ p > Len(s) THEN 0
    ELSE IF s[p] \notin class THEN 0
    ELSE 1 + RunLen(s, p + 1, class, max - 1)

\* \d{1,2}[/-]\d{1,2}[/-]\d{2,4} at position p: the position after the
\* date, or 0.  Each digit group is followed by a non-digit, so the greedy
\* length is the only one that can match.
DateEnd(s, p) ==
    LET k1 == RunLen(s, p, Digits, 2)
        k2 == RunLen(s, p + k1 + 1, Digits, 2)
        k3 == RunLen(s, p + k1 + k2 + 2, Digits, 4)
    IN IF /\ k1 >= 1
          /\ RunLen(s, p + k1, DateSeps, 1) = 1
          /\ k2 >= 1
          /\ RunLen(s, p + k1 + 1 + k2, DateSeps, 1) = 1
          /\ k3 >= 2
       THEN p + k1 + k2 + k3 + 2
       ELSE 0

\* \s+(\$?[\d,]+\.\d{2}) at position a: where group 3 starts and the
\* position after the match; from = 0 when there is no match
AmountAt(s, a) ==
    LET w == RunLen(s, a, RegexSpace, Len(s))
        g == a + w
        d == g + RunLen(s, g, {"$"}, 1)
        r == RunLen(s, d, AmountChars, Len(s))
    IN IF /\ w >= 1
          /\ r >= 1
          /\ RunLen(s, d + r, {"."}, 1) = 1
          /\ RunLen(s, d + r + 1, Digits, 2) = 2
       THEN [from |-> g, to |-> d + r + 3]
       ELSE [from |-> 0, to |-> 0]

\* the description may end at de when it started at ds
DescEndsAt(s, ds, de) ==
    /\ AmountAt(s, de + 1).from # 0
    /\ \A j \in ds..de : s[j] \in DescChars

SetMax(S) == CHOOSE x \in S : \A y \in S : y <= x

SetMin(S) == CHOOSE x \in S : \A y \in S : x <= y

\* the three groups of a match and the position after it
MatchGroups(s, p, e, ds, de, am) ==
    [date |-> SubSeq(s, p, e - 1),
     description |-> SubSeq(s, ds, de),
     amount |-> SubSeq(s, am.from, am.to - 1),
     to |-> am.to]

\* the rest of the pattern after a date that starts at p and ends before e
\* (e = 0: no date); to = 0 when there is no match.  The first \s+ is
\* greedy (longest first), the description lazy (shortest first).
MatchAfterDate(s, p, e) ==
    LET w == IF e = 0 THEN 0 ELSE RunLen(s, e, RegexSpace, Len(s))
        ks == {k \in 1..w : \E de \in (e + k)..Len(s) : DescEndsAt(s, e + k, de)}
    IN IF ks = {} THEN [to |-> 0]
       ELSE LET ds == e + SetMax(ks)
                de == SetMin({x \in ds..Len(s) : DescEndsAt(s, ds, x)})
            IN MatchGroups(s, p, e, ds, de, AmountAt(s, de + 1))

\* the match of the pattern that starts at p
MatchAt(s, p) == MatchAfterDate(s, p, DateEnd(s, p))

\* re.findall: leftmost matches, each search resuming after the last match
RECURSIVE FindAll(_, _)
FindAll(s, p) ==
    LET starts == {q \in p..Len(s) : MatchAt(s, q).to # 0} IN
    IF starts = {} THEN <<>>
    ELSE LET m == MatchAt(s, SetMin(starts)) IN
         <<m>> \o FindAll(s, m.to)

\* one entry of the transactions list
Transaction(match) ==
    [date |-> match.date,
     description |-> Strip(match.description),
     amount |-> IF match.amount[1] = "$" THEN match.amount
                ELSE <<"$">> \o match.amount]

\* the dictionaries appended for the matches handed to the loop
Transactions(matches) ==
    [k \in 1..Len(matches) |-> Transaction(matches[k])]

\* matches[:n]
FirstN(matches, n) ==
    SubSeq(matches, 1, IF Len(matches) < n THEN Len(matches) ELSE n)

\* mutant of ExtractTransactions: the last five matches are taken
ExtractTransactionsLastFive(text) ==
    LET matches == FindAll(text, 1)
        n == Len(matches)
    IN Transactions(SubSeq(matches, IF n > 5 THEN n - 4 ELSE 1, n))

ExtractTransactions(text) == Transactions(FirstN(FindAll(text, 1), 5))

(***************************************************************************)
(* re.search as the single-valued extractors use it                        *)
(*                                                                         *)
(* A pattern is a sequence of items: a character class with its repeat     *)
(* bounds (greedy), a group of alternatives (optional or not), the start   *)
(* and the end of a capture group, and $.  A pattern matches at a position *)
(* the way re does: the longest repeat first, the first alternative first, *)
(* an optional group taken before it is skipped, and the first choice that *)
(* lets the rest of the pattern match wins.  All four extractors pass      *)
(* re.IGNORECASE: the text is matched lower-cased against lower-case       *)
(* items, the groups are cut out of the text as given.                     *)
(***************************************************************************)
\* {n,} and + and * have no upper bound
Unbounded == 0 - 1

Cls(class, min, max) ==
    <<[t |-> "cls", class |-> class, min |-> min, max |-> max]>>

Lit(word) ==
    [k \in 1..Len(word) |->
        [t |-> "cls", class |-> {word[k]}, min |-> 1, max |-> 1]]

Group(alts) == <<[t |-> "alt", alts |-> alts, opt |-> FALSE]>>

OptGroup(alts) == <<[t |-> "alt", alts |-> alts, opt |-> TRUE]>>

Open(g) == <<[t |-> "open", g |-> g]>>

Close(g) == <<[t |-> "close", g |-> g]>>

\* $ under re.MULTILINE: the end of the text or the place before a newline
EndOfLine == <<[t |-> "eol"]>>

NoMatch == [ok |-> FALSE]

NoGroups == [from |-> <<0, 0>>, to |-> <<0, 0>>]

RECURSIVE MatchFrom(_, _, _, _)
RECURSIVE LongestFirst(_, _, _, _, _, _)
RECURSIVE FirstAlternative(_, _, _, _, _, _)
\* the match of items at position p of s, or NoMatch
MatchFrom(items, s, p, groups) ==
    IF items = <<>> THEN [ok |-> TRUE, from |-> 0, to |-> p, groups |-> groups]
    ELSE LET item == Head(items)
             rest == Tail(items)
         IN CASE item.t = "cls" ->
                    LET n == RunLen(s, p, item.class,
                                    IF item.max = Unbounded THEN Len(s)
                                    ELSE item.max)
                    IN IF n < item.min THEN NoMatch
                       ELSE LongestFirst(rest, s, p, groups, n, item.min)
              [] item.t = "alt" ->
                    FirstAlternative(item, 1, rest, s, p, groups)
              [] item.t = "open" ->
                    MatchFrom(rest, s, p, [groups EXCEPT !.from[item.g] = p])
              [] item.t = "close" ->
                    MatchFrom(rest, s, p, [groups EXCEPT !.to[item.g] = p])
              [] item.t = "eol" ->
                    IF p > Len(s) \/ s[p] = NL
                    THEN MatchFrom(rest, s, p, groups)
                    ELSE NoMatch

\* a repeat of n characters, then n - 1, down to min
LongestFirst(rest, s, p, groups, n, min) ==
    LET m == MatchFrom(rest, s, p + n, groups) IN
    IF m.ok THEN m
    ELSE IF n > min THEN LongestFirst(rest, s, p, groups, n - 1, min)
    ELSE NoMatch

\* the alternatives of a group in order, then the group left out if optional
FirstAlternative(item, j, rest, s, p, groups) ==
    IF j > Len(item.alts)
    THEN IF item.opt THEN MatchFrom(rest, s, p, groups) ELSE NoMatch
    ELSE LET m == MatchFrom(item.alts[j] \o rest, s, p, groups) IN
         IF m.ok THEN m
         ELSE FirstAlternative(item, j + 1, rest, s, p, groups)

\* re.search(pattern, text, re.IGNORECASE): the match at the leftmost
\* position that has one
SearchIn(pattern, s) ==
    LET starts == {p \in 1..(Len(s) + 1) :
                      MatchFrom(pattern, s, p, NoGroups).ok}
    IN IF starts = {} THEN NoMatch
       ELSE [MatchFrom(pattern, s, SetMin(starts), NoGroups)
                EXCEPT !.from = SetMin(starts)]

Search(pattern, text) == SearchIn(pattern, Lower(text))

\* match.group(g)
GroupOf(text, match, g) ==
    SubSeq(text, match.groups.from[g], match.groups.to[g] - 1)

\* [:\s]
ColonSpace == RegexSpace \cup {":"}

\* \w, the text lower-cased
WordChars == Lowercase \cup Digits \cup {"_"}

\* \d{1,2}[/-]\d{1,2}[/-]\d{2,4}
NumericDate ==
    Cls(Digits, 1, 2) \o Cls(DateSeps, 1, 1) \o Cls(Digits, 1, 2)
    \o Cls(DateSeps, 1, 1) \o Cls(Digits, 2, 4)

\* \w+\s+\d{1,2},?\s+\d{4}
LongDate ==
    Cls(WordChars, 1, Unbounded) \o Cls(RegexSpace, 1, Unbounded)
    \o Cls(Digits, 1, 2) \o Cls({","}, 0, 1)
    \o Cls(RegexSpace, 1, Unbounded) \o Cls(Digits, 4, 4)

\* [\d,]+\.\d{2}
Amount ==
    Cls(AmountChars, 1, Unbounded) \o Cls({"."}, 1, 1) \o Cls(Digits, 2, 2)

(***************************************************************************)
(* CreditCardStatementParser._extract_card_last_4,                         *)
(* _extract_statement_period, _extract_total_amount_due and                *)
(* _extract_payment_due_date                                               *)
(***************************************************************************)
\* (?:card|account)\s*(?:number|ending|#)?\s*[:\s]*(?:x+|\*+)?(\d{4})
CardPattern1 ==
    Group(<<Lit(<<"c", "a", "r", "d">>), Lit(<<"a", "c", "c", "o", "u", "n",
           "t">>)>>)
    \o Cls(RegexSpace, 0, Unbounded)
    \o OptGroup(<<Lit(<<"n", "u", "m", "b", "e", "r">>), Lit(<<"e", "n", "d",
           "i", "n", "g">>), Lit(<<"#">>)>>)
    \o Cls(RegexSpace, 0, Unbounded)
    \o Cls(ColonSpace, 0, Unbounded)
    \o OptGroup(<<Cls({"x"}, 1, Unbounded), Cls({"*"}, 1, Unbounded)>>)
    \o Open(1)
    \o Cls(Digits, 4, 4)
    \o Close(1)

\* (\d{4})\s*$
CardPattern2 ==
    Open(1)
    \o Cls(Digits, 4, 4)
    \o Close(1)
    \o Cls(RegexSpace, 0, Unbounded)
    \o EndOfLine

\* x{4,}\s*(\d{4})
CardPattern3 ==
    Cls({"x"}, 4, Unbounded)
    \o Cls(RegexSpace, 0, Unbounded)
    \o Open(1)
    \o Cls(Digits, 4, 4)
    \o Close(1)

\* \*{4,}\s*(\d{4})
CardPattern4 ==
    Cls({"*"}, 4, Unbounded)
    \o Cls(RegexSpace, 0, Unbounded)
    \o Open(1)
    \o Cls(Digits, 4, 4)
    \o Close(1)

CardPatterns == <<CardPattern1, CardPattern2, CardPattern3, CardPattern4>>

\* (?:statement|billing)\s+(?:period|cycle|date)[:\s]+(<date>)
\*    \s+(?:to|through|-)\s+(<date>)
PeriodPattern1 ==
    Group(<<Lit(<<"s", "t", "a", "t", "e", "m", "e", "n", "t">>), Lit(<<"b",
           "i", "l", "l", "i", "n", "g">>)>>)
    \o Cls(RegexSpace, 1, Unbounded)
    \o Group(<<Lit(<<"p", "e", "r", "i", "o", "d">>), Lit(<<"c", "y", "c",
           "l", "e">>), Lit(<<"d", "a", "t", "e">>)>>)
    \o Cls(ColonSpace, 1, Unbounded)
    \o Open(1)
    \o NumericDate
    \o Close(1)
    \o Cls(RegexSpace, 1, Unbounded)
    \o Group(<<Lit(<<"t", "o">>), Lit(<<"t", "h", "r", "o", "u", "g", "h">>),
           Lit(<<"-">>)>>)
    \o Cls(RegexSpace, 1, Unbounded)
    \o Open(2)
    \o NumericDate
    \o Close(2)

\* (?:from|period)[:\s]+(<long date>)\s+(?:to|through)\s+(<long date>)
PeriodPattern2 ==
    Group(<<Lit(<<"f", "r", "o", "m">>), Lit(<<"p", "e", "r", "i", "o",
           "d">>)>>)
    \o Cls(ColonSpace, 1, Unbounded)
    \o Open(1)
    \o LongDate
    \o Close(1)
    \o Cls(RegexSpace, 1, Unbounded)
    \o Group(<<Lit(<<"t", "o">>), Lit(<<"t", "h", "r", "o", "u", "g",
           "h">>)>>)
    \o Cls(RegexSpace, 1, Unbounded)
    \o Open(2)
    \o LongDate
    \o Close(2)

PeriodPatterns == <<PeriodPattern1, PeriodPattern2>>

\* (?:total|new)\s+(?:amount\s+)?(?:due|balance)[:\s]+\$?([\d,]+\.\d{2})
TotalPattern1 ==
    Group(<<Lit(<<"t", "o", "t", "a", "l">>), Lit(<<"n", "e", "w">>)>>)
    \o Cls(RegexSpace, 1, Unbounded)
    \o OptGroup(<<Lit(<<"a", "m", "o", "u", "n", "t">>) \o Cls(RegexSpace, 1,
           Unbounded)>>)
    \o Group(<<Lit(<<"d", "u", "e">>), Lit(<<"b", "a", "l", "a", "n", "c",
           "e">>)>>)
    \o Cls(ColonSpace, 1, Unbounded)
    \o Cls({"$"}, 0, 1)
    \o Open(1)
    \o Amount
    \o Close(1)

\* (?:payment\s+due)[:\s]+\$?([\d,]+\.\d{2})
TotalPattern2 ==
    Lit(<<"p", "a", "y", "m", "e", "n", "t">>)
    \o Cls(RegexSpace, 1, Unbounded)
    \o Lit(<<"d", "u", "e">>)
    \o Cls(ColonSpace, 1, Unbounded)
    \o Cls({"$"}, 0, 1)
    \o Open(1)
    \o Amount
    \o Close(1)

\* (?:balance)[:\s]+\$?([\d,]+\.\d{2})
TotalPattern3 ==
    Lit(<<"b", "a", "l", "a", "n", "c", "e">>)
    \o Cls(ColonSpace, 1, Unbounded)
    \o Cls({"$"}, 0, 1)
    \o Open(1)
    \o Amount
    \o Close(1)

TotalPatterns == <<TotalPattern1, TotalPattern2, TotalPattern3>>

\* (?:payment\s+)?due\s+(?:date|by)[:\s]+(<long date>)
DuePattern1 ==
    OptGroup(<<Lit(<<"p", "a", "y", "m", "e", "n", "t">>) \o Cls(RegexSpace,
           1, Unbounded)>>)
    \o Lit(<<"d", "u", "e">>)
    \o Cls(RegexSpace, 1, Unbounded)
    \o Group(<<Lit(<<"d", "a", "t", "e">>), Lit(<<"b", "y">>)>>)
    \o Cls(ColonSpace, 1, Unbounded)
    \o Open(1)
    \o LongDate
    \o Close(1)

\* (?:payment\s+)?due\s+(?:date|by)[:\s]+(<date>)
DuePattern2 ==
    OptGroup(<<Lit(<<"p", "a", "y", "m", "e", "n", "t">>) \o Cls(RegexSpace,
           1, Unbounded)>>)
    \o Lit(<<"d", "u", "e">>)
    \o Cls(RegexSpace, 1, Unbounded)
    \o Group(<<Lit(<<"d", "a", "t", "e">>), Lit(<<"b", "y">>)>>)
    \o Cls(ColonSpace, 1, Unbounded)
    \o Open(1)
    \o NumericDate
    \o Close(1)

\* (?:pay\s+by)[:\s]+(<long date>)
DuePattern3 ==
    Lit(<<"p", "a", "y">>)
    \o Cls(RegexSpace, 1, Unbounded)
    \o Lit(<<"b", "y">>)
    \o Cls(ColonSpace, 1, Unbounded)
    \o Open(1)
    \o LongDate
    \o Close(1)

DuePatterns == <<DuePattern1, DuePattern2, DuePattern3>>

\* Python's None; no text has a character of four letters
None == <<"None">>

\* mutant of FirstMatch: the pattern that matches leftmost in the text wins
LeftmostMatch(patterns, text) ==
    LET matches == [j \in 1..Len(patterns) |-> Search(patterns[j], text)]
        hits == {j \in 1..Len(patterns) : matches[j].ok}
    IN IF hits = {} THEN NoMatch
       ELSE matches[CHOOSE j \in hits :
                       \A h \in hits :
                           \/ matches[j].from < matches[h].from
                           \/ matches[j].from = matches[h].from /\ j <= h]

\* for pattern in patterns: match = re.search(...); if match: return
RECURSIVE FirstMatchFrom(_, _, _)
FirstMatchFrom(patterns, text, j) ==
    IF j > Len(patterns) THEN NoMatch
    ELSE LET match == Search(patterns[j], text) IN
         IF match.ok THEN match
         ELSE FirstMatchFrom(patterns, text, j + 1)

FirstMatch(patterns, text) == FirstMatchFrom(patterns, text, 1)

ExtractCardLast4(text) ==
    LET match == FirstMatch(CardPatterns, text) IN
    IF match.ok THEN GroupOf(text, match, 1) ELSE None

ExtractStatementPeriod(text) ==
    LET match == FirstMatch(PeriodPatterns, text) IN
    IF match.ok
    THEN GroupOf(text, match, 1) \o <<SP, "t", "o", SP>>
         \o GroupOf(text, match, 2)
    ELSE None

\* mutant of ExtractTotalAmountDue: the "$" is put before an absent amount too
ExtractTotalAmountDueAlways(text) ==
    LET match == FirstMatch(TotalPatterns, text) IN
    <<"$">> \o (IF match.ok THEN GroupOf(text, match, 1) ELSE <<>>)

ExtractTotalAmountDue(text) ==
    LET match == FirstMatch(TotalPatterns, text) IN
    IF match.ok THEN <<"$">> \o GroupOf(text, match, 1) ELSE None

ExtractPaymentDueDate(text) ==
    LET match == FirstMatch(DuePatterns, text) IN
    IF match.ok THEN GroupOf(text, match, 1) ELSE None

(***************************************************************************)
(* CreditCardStatementParser.parse_statement                               *)
(***************************************************************************)
\* mutant of StmtConfig: header/footer removal is left switched on
StmtConfigStripping == [min_text_length |-> 5, remove_headers_footers |-> TRUE]

\* the configuration CreditCardStatementParser.__init__ gives its parser
StmtConfig == [min_text_length |-> 5, remove_headers_footers |-> FALSE]

\* the page loop of parse_pdf over a whole document; a page is a raw text
\* and whether page.extract_text succeeds on it
RECURSIVE RetainedPages(_, _, _)
RetainedPages(config, doc_pages, page_num) ==
    IF page_num >= Len(doc_pages) THEN <<>>
    ELSE LET page == doc_pages[page_num + 1]
             page_data == ExtractTextFromPage(page.raw, page.ok, page_num)
         IN (IF KeepPage(config, page_data) THEN <<page_data>> ELSE <<>>)
            \o RetainedPages(config, doc_pages, page_num + 1)

\* parse_pdf on a readable document
ParsePdf(config, doc_pages) ==
    ParsedData(RemoveHeadersFooters(config, RetainedPages(config, doc_pages, 0)),
               Len(doc_pages))

\* the extracted_data dictionary, without the document metadata and the
\* timestamp
ExtractedData(parsed_data) ==
    [issuer |-> DetectIssuer(parsed_data.full_text),
     card_last_4_digits |-> ExtractCardLast4(parsed_data.full_text),
     statement_period |-> ExtractStatementPeriod(parsed_data.full_text),
     total_amount_due |-> ExtractTotalAmountDue(parsed_data.full_text),
     payment_due_date |-> ExtractPaymentDueDate(parsed_data.full_text),
     transactions |-> ExtractTransactions(parsed_data.full_text)]

\* attributes of the standard time module that the handler could look up;
\* there is no time.now
TimeModuleAttributes ==
    {"time", "sleep", "ctime", "gmtime", "localtime", "mktime", "strftime",
     "strptime", "monotonic", "perf_counter"}

\* the except branch of parse_statement: evaluating the returned dictionary
\* calls time.now(), which raises AttributeError out of the handler
ExceptBranch ==
    IF "now" \in TimeModuleAttributes
    THEN [pc |-> "returned", value |-> [error |-> "exception", issuer |-> "Unknown"]]
    ELSE [pc |-> "raised", value |-> <<>>]

(***************************************************************************)
(* SpecStmt: parse_statement on unreadable files and on documents of       *)
(* sample statement pages                                                  *)
(***************************************************************************)
\* Chase card
PgChase ==
    <<"C", "h", "a", "s", "e", SP, "c", "a", "r", "d">>

\* CITIBANK
PgCiti ==
    <<"C", "I", "T", "I", "B", "A", "N", "K">>

\* AMEX gold
PgAmex ==
    <<"A", "M", "E", "X", SP, "g", "o", "l", "d">>

\* 1/1/21 aa 1.00\n1/2/21 ab 2.00
PgT1 ==
    <<"1", "/", "1", "/", "2", "1", SP, "a", "a", SP, "1", ".", "0", "0",
      NL, "1", "/", "2", "/", "2", "1", SP, "a", "b", SP, "2", ".", "0",
      "0">>

\* 02-01-2021 B*a $1,003.00\n2/2/21 bb 4.00
PgT2 ==
    <<"0", "2", "-", "0", "1", "-", "2", "0", "2", "1", SP, "B", "*", "a",
      SP, "$", "1", ",", "0", "0", "3", ".", "0", "0", NL, "2", "/", "2",
      "/", "2", "1", SP, "b", "b", SP, "4", ".", "0", "0">>

\* 3/1/21 ca 5.00\n3/2/21 cb 6.00\n3/3/21 cc 7.00
PgT3 ==
    <<"3", "/", "1", "/", "2", "1", SP, "c", "a", SP, "5", ".", "0", "0",
      NL, "3", "/", "2", "/", "2", "1", SP, "c", "b", SP, "6", ".", "0",
      "0", NL, "3", "/", "3", "/", "2", "1", SP, "c", "c", SP, "7", ".",
      "0", "0">>

\* p. 1
PgShort ==
    <<"p", ".", SP, "1">>

\* Account ending 1234
PgCard ==
    <<"A", "c", "c", "o", "u", "n", "t", SP, "e", "n", "d", "i", "n", "g",
      SP, "1", "2", "3", "4">>

\* Billing cycle: 1/1/21 - 1/31/21
PgPeriod ==
    <<"B", "i", "l", "l", "i", "n", "g", SP, "c", "y", "c", "l", "e", ":",
      SP, "1", "/", "1", "/", "2", "1", SP, "-", SP, "1", "/", "3", "1",
      "/", "2", "1">>

\* New balance: $5.00
PgTotal ==
    <<"N", "e", "w", SP, "b", "a", "l", "a", "n", "c", "e", ":", SP, "$",
      "5", ".", "0", "0">>

\* Due by 3/5/24
PgDue ==
    <<"D", "u", "e", SP, "b", "y", SP, "3", "/", "5", "/", "2", "4">>

\* Pay by: May 5, 2024\nBalance: $5.00\nfrom: May 1, 2024 to May 31, 2024
PgLate ==
    <<"P", "a", "y", SP, "b", "y", ":", SP, "M", "a", "y", SP, "5", ",", SP,
      "2", "0", "2", "4", NL, "B", "a", "l", "a", "n", "c", "e", ":", SP,
      "$", "5", ".", "0", "0", NL, "f", "r", "o", "m", ":", SP, "M", "a",
      "y", SP, "1", ",", SP, "2", "0", "2", "4", SP, "t", "o", SP, "M", "a",
      "y", SP, "3", "1", ",", SP, "2", "0", "2", "4">>

\* Card # 9999\nTotal due: $9.00\nDue date: June 7, 2024\nStatement date: 5/1/24 to 5/31/24
PgEarly ==
    <<"C", "a", "r", "d", SP, "#", SP, "9", "9", "9", "9", NL, "T", "o",
      "t", "a", "l", SP, "d", "u", "e", ":", SP, "$", "9", ".", "0", "0",
      NL, "D", "u", "e", SP, "d", "a", "t", "e", ":", SP, "J", "u", "n",
      "e", SP, "7", ",", SP, "2", "0", "2", "4", NL, "S", "t", "a", "t",
      "e", "m", "e", "n", "t", SP, "d", "a", "t", "e", ":", SP, "5", "/",
      "1", "/", "2", "4", SP, "t", "o", SP, "5", "/", "3", "1", "/", "2",
      "4">>

StmtPageInputs ==
    {[raw |-> r, ok |-> TRUE] :
        r \in {PgChase, PgCiti, PgAmex, PgT1, PgT2, PgT3, PgShort}}
    \cup {[raw |-> <<>>, ok |-> FALSE]}

\* pages that each hold one field of the statement
FieldPages == <<PgCard, PgPeriod, PgTotal, PgDue, PgT1>>

\* the pages of FieldPages whose index is in chosen, in order from k on
RECURSIVE ChosenPages(_, _)
ChosenPages(chosen, k) ==
    IF k > Len(FieldPages) THEN <<>>
    ELSE (IF k \in chosen THEN <<[raw |-> FieldPages[k], ok |-> TRUE]>>
          ELSE <<>>)
         \o ChosenPages(chosen, k + 1)

\* one document for every choice of field pages
FieldDocs ==
    {ChosenPages(chosen, 1) : chosen \in SUBSET (1..Len(FieldPages))}

\* documents in which the same field is written in several ways
VariantDocs ==
    SeqsUpTo({[raw |-> r, ok |-> TRUE] : r \in {PgLate, PgEarly}}, 2)

\* the file at pdf_path: unreadable, or a readable document of pages
StmtDocs ==
    {[readable |-> FALSE, pages |-> <<>>]}
    \cup {[readable |-> TRUE, pages |-> d] :
             d \in SeqsUpTo(StmtPageInputs, MaxStmtPages)
                   \cup FieldDocs \cup VariantDocs}

StmtInit ==
    /\ st_pc = "call"
    /\ st_doc \in StmtDocs
    /\ st_parsed = <<>>
    /\ st_result = <<>>
    /\ CleanIdle
    /\ ParseIdle

\* parsed_data = self.pdf_parser.parse_pdf(pdf_path) returns
StmtParsePdf ==
    /\ st_pc = "call"
    /\ st_doc.readable
    /\ st_parsed' = ParsePdf(StmtConfig, st_doc.pages)
    /\ st_pc' = "parsed"
    /\ UNCHANGED <<st_doc, st_result, pc, parseVars, cl_pc, cleanVars>>

\* the issuer and the fields are extracted and the dictionary returned
StmtExtract ==
    /\ st_pc = "parsed"
    /\ st_result' = ExtractedData(st_parsed)
    /\ st_pc' = "returned"
    /\ UNCHANGED <<st_doc, st_parsed, pc, parseVars, cl_pc, cleanVars>>

\* parse_pdf raises and the except branch runs
StmtParseFails ==
    /\ st_pc = "call"
    /\ ~st_doc.readable
    /\ st_pc' = ExceptBranch.pc
    /\ st_result' = ExceptBranch.value
    /\ UNCHANGED <<st_doc, st_parsed, pc, parseVars, cl_pc, cleanVars>>

StmtNext == StmtParsePdf \/ StmtExtract \/ StmtParseFails

SpecStmt == StmtInit /\ [][StmtNext]_vars

(***************************************************************************)
(* Claims about _clean_text (checked under SpecClean)                      *)
(***************************************************************************)
\* C6: _clean_text is idempotent: cleaning the cleaned text of any input
\* gives the cleaned text back.
C6_CleanIdempotent ==
    cl_pc = "twice" => cl_out2 = cl_out

\* an input that cleaning really changed, whose cleaned text keeps a
\* paragraph break, has been cleaned twice
C6_Witness ==
    /\ cl_pc = "twice"
    /\ cl_out # cl_in
    /\ \E k \in 1..(Len(cl_out) - 1) : cl_out[k] = NL /\ cl_out[k + 1] = NL

\* C7: the output of _clean_text has no run of three or more newlines, no
\* leading or trailing whitespace, and is empty for the empty input.
C7_CleanShape ==
    cl_pc \in {"once", "twice"} =>
        /\ ~HasTripleNL(cl_out)
        /\ cl_out # <<>> =>
              /\ cl_out[1] \notin Whitespace
              /\ cl_out[Len(cl_out)] \notin Whitespace
        /\ cl_in = <<>> => cl_out = <<>>

\* an input with three newlines in a row and whitespace at an end has been
\* cleaned to a non-empty text
C7_Witness ==
    /\ cl_pc = "once"
    /\ HasTripleNL(cl_in)
    /\ cl_in[Len(cl_in)] \in Whitespace
    /\ cl_out # <<>>

(***************************************************************************)
(* Claims about parse_pdf and _remove_headers_footers (checked under Spec) *)
(***************************************************************************)
AllLongEnough(pages) ==
    \A k \in 1..Len(pages) : Len(pages[k].text) >= cfg.min_text_length

StrippingApplies(pages) ==
    Len(pages) >= 3 /\ cfg.remove_headers_footers

\* C2 as stated: every returned page has a text of length >=
\* min_text_length, also after header/footer stripping has run.
C2_AsStated ==
    pc = "done" => AllLongEnough(result.pages)

\* C2 (amended): every page is retained with a cleaned text of length >=
\* min_text_length, measured before stripping; the returned pages still
\* have it whenever stripping leaves them alone (fewer than 3 retained pages
\* or remove_headers_footers False).
C2_RetainedLength ==
    /\ pc = "loop" => AllLongEnough(pages_data)
    /\ (pc = "stripped" /\ ~StrippingApplies(pages_data))
          => AllLongEnough(pages_data)
    /\ (pc = "done" /\ ~StrippingApplies(result.pages))
          => AllLongEnough(result.pages)

\* a document from which the filter dropped a page and kept another has
\* been returned without stripping
C2_Witness ==
    /\ pc = "done"
    /\ ~StrippingApplies(result.pages)
    /\ cfg.min_text_length > 0
    /\ result.processed_pages > 0
    /\ result.processed_pages < result.total_pages

AllTexts(pages) == [k \in 1..Len(pages) |-> pages[k].text]

\* C3 as stated: full_text is the texts of all returned pages joined by
\* "\n\n" in page order.
C3_AsStated ==
    pc = "done" => result.full_text = Join(<<NL, NL>>, AllTexts(result.pages))

\* C3 (amended): full_text is the non-empty texts of the returned pages
\* joined by "\n\n" in page order; a returned page whose text is empty
\* contributes neither text nor separator.
C3_FullTextJoin ==
    pc = "done" =>
        result.full_text =
            Join(<<NL, NL>>,
                 SelectSeq(AllTexts(result.pages), LAMBDA t : t # <<>>))

\* a document with an empty page between two non-empty ones has been
\* returned
C3_Witness ==
    /\ pc = "done"
    /\ Len(result.pages) = 3
    /\ result.pages[1].text # <<>>
    /\ result.pages[2].text = <<>>
    /\ result.pages[3].text # <<>>

\* the line sequence of a page text; the empty text has no line
LinesOf(text) == IF text = <<>> THEN <<>> ELSE Split(text)

Front(lines) == SubSeq(lines, 1, Len(lines) - 1)

\* lines minus at most its first and at most its last element
EdgeTrimmed(lines) ==
    IF lines = <<>> THEN {lines}
    ELSE {lines, Tail(lines), Front(lines)}
         \cup (IF Len(lines) >= 2 THEN {Front(Tail(lines))} ELSE {})

RECURSIVE DropLeadingBlank(_)
DropLeadingBlank(lines) ==
    IF lines # <<>> /\ Head(lines) = <<>>
    THEN DropLeadingBlank(Tail(lines))
    ELSE lines

RECURSIVE DropTrailingBlank(_)
DropTrailingBlank(lines) ==
    IF lines # <<>> /\ lines[Len(lines)] = <<>>
    THEN DropTrailingBlank(Front(lines))
    ELSE lines

TrimBlank(lines) == DropTrailingBlank(DropLeadingBlank(lines))

StripStep == pc = "loop" /\ pc' = "stripped"

\* C4 as stated: _remove_headers_footers leaves each page with its original
\* line sequence minus at most the first and at most the last line, every
\* other line (blank or not) kept.
C4_AsStated ==
    [][StripStep =>
          \A k \in 1..Len(pages_data) :
              LinesOf(pages_data'[k].text)
                  \in EdgeTrimmed(LinesOf(pages_data[k].text))]_vars

\* C4 (amended): on the cleaned pages parse_pdf passes in,
\* _remove_headers_footers leaves each page with its original line sequence
\* minus at most the first and at most the last line and minus the blank
\* lines this leaves at the start or the end; every other line is kept.
C4_EdgeLinesOnly ==
    [][StripStep =>
          /\ Len(pages_data') = Len(pages_data)
          /\ \A k \in 1..Len(pages_data) :
                LinesOf(pages_data'[k].text)
                    \in {TrimBlank(ls) :
                            ls \in EdgeTrimmed(LinesOf(pages_data[k].text))}]_vars

\* stripping has run on three retained two-word pages and shortened each:
\* the first keeps only the line "aa", the others keep nothing
C4_Witness ==
    /\ pc = "stripped"
    /\ StrippingApplies(pages_data)
    /\ Len(pages_data) = 3
    /\ \A k \in 1..3 : pages_data[k].word_count = 2
    /\ pages_data[1].text = <<"a", "a">>
    /\ pages_data[2].text = <<>>
    /\ pages_data[3].text = <<>>

\* C5: _remove_headers_footers returns the pages with every text unchanged
\* whenever fewer than 3 pages are passed to it or remove_headers_footers
\* is False.
C5_NoOpBelowThree ==
    [][(StripStep /\ ~StrippingApplies(pages_data))
          => pages_data' = pages_data]_vars

\* of a three-page document two pages were retained, both starting with the
\* line "a", and the enabled stripping left them alone
C5_Witness ==
    /\ pc = "stripped"
    /\ cfg.remove_headers_footers
    /\ i = 3
    /\ Len(pages_data) = 2
    /\ \A k \in 1..2 : pages_data[k].text = <<"a", NL, "a", "a">>

\* C11: total_words of every parse_pdf result is the sum of the token
\* counts of the returned (post-stripping) page texts, and each returned
\* page's word_count is the token count of its returned text.
C11_WordCountsOfReturnedText ==
    pc = "done" =>
        /\ \A k \in 1..Len(result.pages) :
               result.pages[k].word_count = WordCount(result.pages[k].text)
        /\ result.total_words =
               SumWordCounts([k \in 1..Len(result.pages) |->
                   [word_count |-> WordCount(result.pages[k].text)]])

Running == {"loop", "stripped", "done"}

\* the record of a failed page is empty, the record of any other page is
\* what extraction gives without a failure, and every retained page is one
\* of the pages read
FailureIsLocal ==
    /\ \A k \in 1..Len(extracted) :
           /\ extracted[k].page_number = k
           /\ extracted[k].error =>
                  extracted[k].text = <<>> /\ extracted[k].word_count = 0
           /\ ~extracted[k].error =>
                  extracted[k].word_count = WordCount(extracted[k].text)
    /\ pc \in Running =>
           /\ Len(extracted) = i
           /\ \A k \in 1..Len(pages_data) :
                  /\ pages_data[k].page_number \in 1..i
                  /\ pages_data[k].error =
                         extracted[pages_data[k].page_number].error
    /\ pc = "done" => result.total_pages = i /\ result.pages = pages_data

\* C12: a page whose extraction raises becomes a record with empty text and
\* word count 0, for that page only, and parse_pdf never raises once the
\* document is open: the page loop, stripping and assembly only lead on to
\* a returned result built from the pages read.
C12_PageFailureAbsorbed ==
    /\ []FailureIsLocal
    /\ [][(pc \in Running) => (pc' \in Running)]_vars

\* a three-page document whose second page failed to extract has been
\* returned with all three pages, the failed one empty with no word
C12_Witness ==
    /\ pc = "done"
    /\ result.total_pages = 3
    /\ Len(result.pages) = 3
    /\ ~result.pages[1].error /\ result.pages[1].text # <<>>
    /\ result.pages[2].error
    /\ result.pages[2].text = <<>> /\ result.pages[2].word_count = 0
    /\ ~result.pages[3].error /\ result.pages[3].text # <<>>
    /\ result.total_words > 0

\* the records of the source pages whose cleaned text is long enough
LongEnough(records) ==
    SelectSeq(records, LAMBDA r : Len(r.text) >= cfg.min_text_length)

PageNumbers(records) == [k \in 1..Len(records) |-> records[k].page_number]

\* C15: the returned 'pages' are, in source order, exactly the source pages
\* whose cleaned text, measured before stripping, has length >=
\* min_text_length; full_text is built from these pages alone;
\* processed_pages is the length of 'pages' and at most total_pages.
C15_RetainedSubsequence ==
    /\ pc = "loop" => pages_data = LongEnough(extracted)
    /\ pc = "stripped" =>
           /\ PageNumbers(pages_data) = PageNumbers(LongEnough(extracted))
           /\ pages_data = RemoveHeadersFooters(cfg, LongEnough(extracted))
    /\ pc = "done" =>
           /\ PageNumbers(result.pages) = PageNumbers(LongEnough(extracted))
           /\ result.full_text =
                  Join(<<NL, NL>>,
                       NonEmptyTexts(RemoveHeadersFooters(
                                         cfg, LongEnough(extracted))))
           /\ result.processed_pages = Len(result.pages)
           /\ result.processed_pages <= result.total_pages
           /\ result.total_pages = Len(extracted)

\* of a three-page document the second page, one character long, was
\* dropped under min_text_length 2 and the two others were returned in order
C15_Witness ==
    /\ pc = "done"
    /\ cfg.min_text_length = 2
    /\ Len(extracted) = 3
    /\ Len(extracted[2].text) = 1
    /\ PageNumbers(result.pages) = <<1, 3>>
    /\ result.processed_pages = 2
    /\ result.total_pages = 3
    /\ result.full_text =
           Join(<<NL, NL>>, <<extracted[1].text, extracted[3].text>>)

EdgeLines(pages, last) ==
    [k \in 1..Len(pages) |->
        LET lines == Split(pages[k].text) IN
        IF last THEN lines[Len(lines)] ELSE lines[1]]

\* the edge line of page k is non-blank and is the edge line of strictly
\* more than half of the pages
OnMostPages(edge_lines, k) ==
    /\ Strip(edge_lines[k]) # <<>>
    /\ 2 * Cardinality({j \in 1..Len(edge_lines) :
                            edge_lines[j] = edge_lines[k]})
           > Len(edge_lines)

\* the lines of page k without its first line if that is on most pages and
\* without its last line if that is on most pages
WithoutBoilerplate(pages, k) ==
    LET lines0 == Split(pages[k].text)
        lines1 == IF OnMostPages(EdgeLines(pages, FALSE), k)
                  THEN Tail(lines0) ELSE lines0
        lines2 == IF lines1 # <<>> /\ OnMostPages(EdgeLines(pages, TRUE), k)
                  THEN Front(lines1) ELSE lines1
    IN lines2

\* C14: with at least 3 pages and the feature enabled, the first (last) line
\* of a page is stripped exactly when it is non-blank and is the first (last)
\* line of strictly more than half of the pages passed in; a line on half of
\* the pages or fewer stays.
C14_StrictMajorityStripped ==
    [][(StripStep /\ StrippingApplies(pages_data)) =>
          /\ Len(pages_data') = Len(pages_data)
          /\ \A k \in 1..Len(pages_data) :
                 LinesOf(pages_data'[k].text)
                     = TrimBlank(WithoutBoilerplate(pages_data, k))]_vars

\* of four pages "a\nb", "a\nb", "a", "b\na" the three that start with "a"
\* have lost that line; the last lines "b" and "a", each on exactly half of
\* the pages, and the first line "b" of the fourth page are still there
C14_Witness ==
    /\ pc = "stripped"
    /\ cfg.remove_headers_footers
    /\ Len(extracted) = 4
    /\ extracted[1].text = <<"a", NL, "b">>
    /\ extracted[2].text = <<"a", NL, "b">>
    /\ extracted[3].text = <<"a">>
    /\ extracted[4].text = <<"b", NL, "a">>
    /\ Len(pages_data) = 4
    /\ pages_data[1].text = <<"b">>
    /\ pages_data[2].text = <<"b">>
    /\ pages_data[3].text = <<>>
    /\ pages_data[4].text = <<"b", NL, "a">>

\* C18: the header candidates and the footer candidates of
\* _remove_headers_footers are at most one line each, and the pages it
\* returns are the same for every order in which the candidate lists can
\* come out of set().
C18_OneCandidateAnyOrder ==
    [][StripStep =>
          /\ Cardinality(PotentialHeaders(pages_data)) <= 1
          /\ Cardinality(PotentialFooters(pages_data)) <= 1
          /\ \A header_list \in Orders(PotentialHeaders(pages_data)),
                footer_list \in Orders(PotentialFooters(pages_data)) :
                 pages_data' = RemoveHeadersFootersOrdered(
                                   cfg, pages_data, header_list, footer_list)
          /\ pages_data' = RemoveHeadersFooters(cfg, pages_data)]_vars

\* three pages "a\nb", "a\nb", "b\na": of the first lines "a" and "b" only
\* "a" is a candidate, of the last lines only "b"; the first two pages have
\* lost both lines, the third is whole
C18_Witness ==
    /\ pc = "stripped"
    /\ cfg.remove_headers_footers
    /\ Len(extracted) = 3
    /\ extracted[1].text = <<"a", NL, "b">>
    /\ extracted[2].text = <<"a", NL, "b">>
    /\ extracted[3].text = <<"b", NL, "a">>
    /\ PotentialHeaders(extracted) = {<<"a">>}
    /\ PotentialFooters(extracted) = {<<"b">>}
    /\ Len(pages_data) = 3
    /\ pages_data[1].text = <<>>
    /\ pages_data[2].text = <<>>
    /\ pages_data[3].text = <<"b", NL, "a">>

(***************************************************************************)
(* Claims about parse_statement, _detect_issuer and _extract_transactions  *)
(* (checked under SpecStmt)                                                *)
(***************************************************************************)
\* C1: when parse_pdf raises inside parse_statement, parse_statement
\* returns a record with issuer "Unknown", an error message and no
\* extracted field; no exception reaches the caller.
C1_ErrorRecordReturned ==
    (st_pc \in {"returned", "raised"} /\ ~st_doc.readable) =>
        /\ st_pc = "returned"
        /\ st_result.issuer = "Unknown"
        /\ "error" \in DOMAIN st_result
        /\ "transactions" \notin DOMAIN st_result

Returned == st_pc = "returned" /\ "error" \notin DOMAIN st_result

\* the matches of the transaction pattern in the full text
TextMatches == FindAll(st_parsed.full_text, 1)

\* C8: _extract_transactions returns at most 5 transactions, the first
\* min(5, n) of the n pattern matches in document order.
C8_FirstFiveMatches ==
    Returned =>
        LET matches == TextMatches
            txns == st_result.transactions
        IN /\ Len(txns) <= 5
           /\ Len(txns) <= Len(matches)
           /\ Len(txns) = 5 \/ Len(txns) = Len(matches)
           /\ \A k \in 1..Len(txns) :
                 /\ txns[k].date = matches[k].date
                 /\ txns[k].description = Strip(matches[k].description)
                 /\ \/ txns[k].amount = matches[k].amount
                    \/ txns[k].amount = <<"$">> \o matches[k].amount

\* a statement with seven distinct matches has been parsed and five
\* transactions returned
C8_Witness ==
    /\ Returned
    /\ Len(TextMatches) = 7
    /\ Len(st_result.transactions) = 5
    /\ Cardinality({TextMatches[k].date : k \in 1..7}) = 7

HasKeywordOf(k) ==
    \E j \in 1..Len(Issuers[k].keywords) :
        Contains(Issuers[k].keywords[j], Lower(st_parsed.full_text))

IssuerIndex(label) == CHOOSE k \in 1..Len(Issuers) : Issuers[k].label = label

\* C9 as stated: a text with a Chase keyword and a Citibank keyword is
\* classified "Chase".
C9_AsStated ==
    (Returned /\ HasKeywordOf(IssuerIndex("Chase"))
              /\ HasKeywordOf(IssuerIndex("Citibank")))
        => st_result.issuer = "Chase"

\* C9 (amended): a text with a Chase keyword and a Citibank keyword and no
\* American Express keyword is classified "Chase".
C9_ChaseBeforeCitibank ==
    (Returned /\ HasKeywordOf(IssuerIndex("Chase"))
              /\ HasKeywordOf(IssuerIndex("Citibank"))
              /\ ~HasKeywordOf(IssuerIndex("American Express")))
        => st_result.issuer = "Chase"

\* a statement whose text names Citibank before Chase, and not American
\* Express, has been classified
C9_Witness ==
    /\ Returned
    /\ Len(st_parsed.pages) = 2
    /\ st_parsed.pages[1].text = PgCiti
    /\ st_parsed.pages[2].text = PgChase

\* C10: _detect_issuer returns the label of the first issuer in table order
\* with a keyword in the lower-cased text, "Unknown" exactly when no
\* keyword of any issuer occurs, and then the result has no 'error' key.
C10_FirstIssuerInTableOrder ==
    st_pc = "returned" /\ st_doc.readable =>
        LET hits == {k \in 1..Len(Issuers) : HasKeywordOf(k)} IN
        /\ hits # {} => st_result.issuer = Issuers[SetMin(hits)].label
        /\ hits = {} <=> st_result.issuer = "Unknown"
        /\ "error" \notin DOMAIN st_result

\* a statement whose pages name Citibank, Chase and American Express, in
\* that order and partly in upper case, has been classified by table order
C10_Witness ==
    /\ Returned
    /\ Len(st_parsed.pages) = 3
    /\ st_parsed.pages[1].text = PgCiti
    /\ st_parsed.pages[2].text = PgChase
    /\ st_parsed.pages[3].text = PgAmex
    /\ st_result.issuer = "American Express"

\* the patterns of a list that match somewhere in the text
MatchingPatterns(patterns, text) ==
    {j \in 1..Len(patterns) : Search(patterns[j], text).ok}

SingleFields ==
    {"card_last_4_digits", "statement_period", "total_amount_due",
     "payment_due_date"}

PatternsOf ==
    [card_last_4_digits |-> CardPatterns,
     statement_period |-> PeriodPatterns,
     total_amount_due |-> TotalPatterns,
     payment_due_date |-> DuePatterns]

\* the fields a result record reports as absent
AbsentFields(record) ==
    {f \in SingleFields : record[f] = None}
    \cup (IF record.transactions = <<>> THEN {"transactions"} ELSE {})

\* the sets of absent fields over the documents made of field pages
AbsentCombinations ==
    {AbsentFields(ExtractedData(ParsePdf(StmtConfig, doc_pages))) :
        doc_pages \in FieldDocs}

\* C13: a readable document is always parsed into the normal result record,
\* which has no 'error' key; a single-valued field none of whose patterns
\* matches the full text is None, transactions without a match is the empty
\* list; and every combination of absent fields occurs.
C13_AbsentFieldsNoError ==
    /\ st_doc.readable => st_pc # "raised"
    /\ st_pc = "returned" =>
           /\ "error" \notin DOMAIN st_result
           /\ \A f \in SingleFields :
                  MatchingPatterns(PatternsOf[f], st_parsed.full_text) = {}
                      => st_result[f] = None
           /\ FindAll(st_parsed.full_text, 1) = <<>>
                  => st_result.transactions = <<>>
    /\ AbsentCombinations = SUBSET (SingleFields \cup {"transactions"})

\* the document of the pages "Account ending 1234" and "Due by 3/5/24" has
\* been returned with these two fields and the three others absent
C13_Witness ==
    /\ st_pc = "returned"
    /\ st_doc.pages = <<[raw |-> PgCard, ok |-> TRUE],
                        [raw |-> PgDue, ok |-> TRUE]>>
    /\ "error" \notin DOMAIN st_result
    /\ st_result.issuer = "Unknown"
    /\ st_result.card_last_4_digits = <<"1", "2", "3", "4">>
    /\ st_result.payment_due_date = <<"3", "/", "5", "/", "2", "4">>
    /\ st_result.statement_period = None
    /\ st_result.total_amount_due = None
    /\ st_result.transactions = <<>>

\* what a field is when pattern j of its list is the one that counts
FieldValue(f, text, j) ==
    LET match == Search(PatternsOf[f][j], text) IN
    CASE f = "statement_period" ->
             GroupOf(text, match, 1) \o <<SP, "t", "o", SP>>
             \o GroupOf(text, match, 2)
      [] f = "total_amount_due" -> <<"$">> \o GroupOf(text, match, 1)
      [] OTHER -> GroupOf(text, match, 1)

\* C16: each single-valued field is the capture of the lowest-indexed
\* pattern of its list that matches anywhere in the full text, wherever the
\* later patterns match, and is None only when no pattern matches.
C16_LowestIndexedPatternWins ==
    st_pc = "returned" =>
        \A f \in SingleFields :
            LET matching == MatchingPatterns(PatternsOf[f], st_parsed.full_text)
            IN IF matching = {}
               THEN st_result[f] = None
               ELSE /\ st_result[f] # None
                    /\ st_result[f] =
                           FieldValue(f, st_parsed.full_text, SetMin(matching))

\* in the returned document the page with "Pay by", "Balance" and "from"
\* comes before the page with "Card #", "Total due", "Due date" and
\* "Statement date": every field has the value of its first pattern, from
\* the second page, although a later pattern matches on the first page
C16_Witness ==
    /\ st_pc = "returned"
    /\ st_doc.pages = <<[raw |-> PgLate, ok |-> TRUE],
                        [raw |-> PgEarly, ok |-> TRUE]>>
    /\ Search(CardPattern2, st_parsed.full_text).from
           < Search(CardPattern1, st_parsed.full_text).from
    /\ Search(PeriodPattern2, st_parsed.full_text).from
           < Search(PeriodPattern1, st_parsed.full_text).from
    /\ Search(TotalPattern3, st_parsed.full_text).from
           < Search(TotalPattern1, st_parsed.full_text).from
    /\ Search(DuePattern3, st_parsed.full_text).from
           < Search(DuePattern1, st_parsed.full_text).from
    /\ st_result.card_last_4_digits = <<"9", "9", "9", "9">>
    /\ st_result.statement_period =
           <<"5", "/", "1", "/", "2", "4", SP, "t", "o", SP,
             "5", "/", "3", "1", "/", "2", "4">>
    /\ st_result.total_amount_due = <<"$", "9", ".", "0", "0">>
    /\ st_result.payment_due_date =
           <<"J", "u", "n", "e", SP, "7", ",", SP, "2", "0", "2", "4">>

\* the cleaned text of each page of the document, the empty text for a page
\* whose extraction fails
CleanedTexts(doc_pages) ==
    [k \in 1..Len(doc_pages) |->
        IF doc_pages[k].ok THEN CleanText(doc_pages[k].raw) ELSE <<>>]

\* C19: under the configuration of CreditCardStatementParser the texts of
\* the pages parse_pdf returns are the cleaned texts of the document's pages
\* of at least 5 characters, unchanged and in page order, the full text
\* handed to the extractors is their "\n\n"-join, and every returned page
\* has at least 5 characters and a word_count that is the token count of
\* its text.
C19_StatementTextUnstripped ==
    st_pc \in {"parsed", "returned"} =>
        LET kept == SelectSeq(CleanedTexts(st_doc.pages),
                              LAMBDA t : Len(t) >= 5)
        IN /\ AllTexts(st_parsed.pages) = kept
           /\ st_parsed.full_text = Join(<<NL, NL>>, kept)
           /\ \A k \in 1..Len(st_parsed.pages) :
                  /\ Len(st_parsed.pages[k].text) >= 5
                  /\ st_parsed.pages[k].word_count
                         = WordCount(st_parsed.pages[k].text)

\* a document of three equal two-line pages, whose first and last lines
\* would count as header and footer, has been parsed with every page whole
C19_Witness ==
    /\ st_pc = "parsed"
    /\ Len(st_doc.pages) = 3
    /\ \A k \in 1..3 : st_doc.pages[k] = [raw |-> PgT1, ok |-> TRUE]
    /\ Len(st_parsed.pages) = 3
    /\ \A k \in 1..3 : st_parsed.pages[k].text = PgT1
    /\ st_parsed.full_text = PgT1 \o <<NL, NL>> \o PgT1 \o <<NL, NL>> \o PgT1

====
